---------------------------- MODULE Spec2Model ----------------------------
(***************************************************************************)
(* State-machine model of the Raycast extension "PowerShell Functions".    *)
(* The repository holds two prototypes of the same command:                *)
(*   variant "mtime"  : src/src/execute-powershell-function.tsx            *)
(*                      (cache key = path + modification time, usePromise) *)
(*   variant "manual" : src/unnamed/part_001                               *)
(*                      (one fixed cache key, explicit handleReload)       *)
(* Strings of the program that the code inspects character by character    *)
(* (paths, function names) are sequences of one-character strings.         *)
(***************************************************************************)
EXTENDS Naturals, Sequences, FiniteSets, TLC

(***************************************************************************)
(* Bounds of the model.                                                    *)
(***************************************************************************)
MaxMtime == 2
MaxBuster == 2
MaxCalls == 2
MaxExec == 1
MaxPathLen == 3
MaxOverlap == 2

(***************************************************************************)
(* Characters and strings.                                                 *)
(***************************************************************************)
Quote == "'"
Backslash == "\\"
Tilde == "~"

\* [a-zA-Z0-9_-], the character class of the textual extraction
IdentChars ==
    {"a", "b", "c", "d", "e", "f", "g", "h", "i", "j", "k", "l", "m",
     "n", "o", "p", "q", "r", "s", "t", "u", "v", "w", "x", "y", "z",
     "A", "B", "C", "D", "E", "F", "G", "H", "I", "J", "K", "L", "M",
     "N", "O", "P", "Q", "R", "S", "T", "U", "V", "W", "X", "Y", "Z",
     "0", "1", "2", "3", "4", "5", "6", "7", "8", "9", "_", "-"}

IsIdentifier(name) ==
    /\ Len(name) > 0
    /\ \A i \in 1..Len(name) : name[i] \in IdentChars

RECURSIVE ReplaceAll(_, _, _)
\* String.prototype.replace(/c/g, with): every occurrence, left to right
ReplaceAll(s, c, with) ==
    IF s = <<>> THEN <<>>
    ELSE (IF Head(s) = c THEN with ELSE <<Head(s)>>) \o ReplaceAll(Tail(s), c, with)

RECURSIVE ReplaceFirst(_, _, _)
\* String.prototype.replace without the g flag: the first occurrence only
ReplaceFirst(s, c, with) ==
    IF s = <<>> THEN <<>>
    ELSE IF Head(s) = c THEN with \o Tail(s)
    ELSE <<Head(s)>> \o ReplaceFirst(Tail(s), c, with)

escapeQuotesOnce(path) ==
    ReplaceAll(ReplaceFirst(path, Quote, <<Quote, Quote>>), Backslash, <<Backslash, Backslash>>)

escapePowerShellPath(path) ==
    ReplaceAll(ReplaceAll(path, Quote, <<Quote, Quote>>), Backslash, <<Backslash, Backslash>>)

\* the single-quoted literal '${escapedPath}' of the composed command
QuotedLiteral(escaped) == <<Quote>> \o escaped \o <<Quote>>

RECURSIVE ScanSingleQuoted(_, _)
\* PowerShell's reading of a single-quoted string after its opening quote:
\* '' stands for one quote, a lone ' closes the string, every other character
\* (the backslash too) stands for itself.  Result: the string's value and the
\* text left after the closing quote; closed = FALSE when the text ends first.
ScanSingleQuoted(s, acc) ==
    IF s = <<>> THEN [closed |-> FALSE, value |-> acc, rest |-> <<>>]
    ELSE IF Head(s) = Quote
         THEN IF Len(s) >= 2 /\ s[2] = Quote
              THEN ScanSingleQuoted(Tail(Tail(s)), Append(acc, Quote))
              ELSE [closed |-> TRUE, value |-> acc, rest |-> Tail(s)]
         ELSE ScanSingleQuoted(Tail(s), Append(acc, Head(s)))

ParseSingleQuoted(lit) ==
    IF lit # <<>> /\ Head(lit) = Quote
    THEN ScanSingleQuoted(Tail(lit), <<>>)
    ELSE [closed |-> FALSE, value |-> <<>>, rest |-> lit]

(***************************************************************************)
(* JSON texts, as token sequences, and the values they denote.             *)
(***************************************************************************)
LBracket == [t |-> "[", v |-> <<>>]
RBracket == [t |-> "]", v |-> <<>>]
Comma == [t |-> ",", v |-> <<>>]
Str(name) == [t |-> "str", v |-> name]

Undefined == [kind |-> "undefined", items |-> <<>>]
ArrayOf(names) == [kind |-> "array", items |-> names]
StringOf(name) == [kind |-> "string", items |-> <<name>>]
EmptyArray == ArrayOf(<<>>)

RECURSIVE JoinItems(_)
JoinItems(names) ==
    IF names = <<>> THEN <<>>
    ELSE IF Len(names) = 1 THEN <<Str(names[1])>>
    ELSE <<Str(names[1]), Comma>> \o JoinItems(Tail(names))

\* JSON.stringify of a string or an array of strings
JSONStringify(val) ==
    IF val.kind = "string" THEN <<Str(val.items[1])>>
    ELSE <<LBracket>> \o JoinItems(val.items) \o <<RBracket>>

RECURSIVE ParseItems(_, _)
ParseItems(toks, acc) ==
    IF toks = <<>> THEN acc
    ELSE IF Head(toks).t = "str" THEN ParseItems(Tail(toks), Append(acc, Head(toks).v))
    ELSE ParseItems(Tail(toks), acc)

\* JSON.parse of a text JSONStringify or ConvertTo-Json wrote
JSONParse(text) ==
    IF Head(text).t = "[" THEN ArrayOf(ParseItems(text, <<>>))
    ELSE StringOf(Head(text).v)

(***************************************************************************)
(* Scripts: a script is the sequence of its function definitions.          *)
(*   kw      the keyword as written ("function", "Function", "filter")     *)
(*   indent  whether the keyword is preceded by white space on its line    *)
(*   params  "none"   function F { }                                       *)
(*           "empty"  function F() { }                                     *)
(*           "list"   function F($x) { }                                   *)
(*           "block"  function F { param($x) }                             *)
(***************************************************************************)
Def(kw, indent, name, params) ==
    [kw |-> kw, indent |-> indent, name |-> name, params |-> params]

NamesOf(defs) == [i \in 1..Len(defs) |-> defs[i].name]

\* $node -is [FunctionDefinitionAst] -and $node.Parameters.Count -eq 0:
\* Parameters is the parenthesised list only; it is $null (Count 0) for a
\* function without one, whether or not its body starts with a param block.
AstKeeps(d) == d.params \in {"none", "empty", "block"}

\* $ast.FindAll({...}, $true) followed by $functions.Name
FindAllNames(script) == NamesOf(SelectSeq(script, AstKeeps))

\* /^function\s+([a-zA-Z0-9_-]+)\s*(?:\(\s*\))?\s*\{/gm
RegexMatches(d) ==
    /\ d.kw = "function"
    /\ ~d.indent
    /\ IsIdentifier(d.name)
    /\ d.params \in {"none", "empty", "block"}

\* while ((match = regex.exec(content)) !== null) foundFunctions.push(match[1])
foundFunctions(script) == NamesOf(SelectSeq(script, RegexMatches))

\* if ($functions) { $functions.Name | ConvertTo-Json -Compress }: nothing is
\* written for no function, a bare JSON string for one, an array for more.
ConvertToJson(names) ==
    IF names = <<>> THEN <<>>
    ELSE IF Len(names) = 1 THEN <<Str(names[1])>>
    ELSE <<LBracket>> \o JoinItems(names) \o <<RBracket>>

\* stdout.trim() ? JSON.parse(stdout) : []
ParseStdout(stdout) == IF stdout = <<>> THEN EmptyArray ELSE JSONParse(stdout)

(***************************************************************************)
(* The machine the command runs on: the home directory, two scripts, a     *)
(* link to the second one, and what the scripts hold after each edit.      *)
(***************************************************************************)
HomeDir == <<"C", Backslash, "u">>
ScriptA == HomeDir \o <<Backslash, "a">>
ScriptB == <<"C", Backslash, "o", Quote, "b">>
LinkB == <<"l">>
Files == {ScriptA, ScriptB}

\* values of the scriptPath preference: unset, ~\a, the link, a missing file
PrefUnset == <<>>
PrefHome == <<Tilde, Backslash, "a">>
PrefMissing == <<"n">>
Prefs == {PrefUnset, PrefHome, LinkB, PrefMissing}

GetA == <<"G", "-", "A">>
RunB == <<"R", "_", "B">>
SetC == <<"S", "C">>
GetDotD == <<"G", ".", "D">>

\* the content of file f once its modification time is m
ScriptAt(f, m) ==
    IF f = ScriptB
    THEN <<Def("function", FALSE, GetDotD, "none"),
           Def("Function", TRUE, RunB, "block"),
           Def("function", FALSE, SetC, "none"),
           Def("function", FALSE, GetA, "list")>>
    ELSE CASE m = 0 -> <<Def("function", FALSE, GetA, "none"),
                         Def("function", FALSE, RunB, "empty"),
                         Def("function", FALSE, GetA, "none"),
                         Def("function", FALSE, SetC, "list")>>
           [] m = 1 -> <<Def("function", FALSE, SetC, "list"),
                         Def("function", FALSE, GetA, "none")>>
           [] m = 2 -> <<Def("function", FALSE, SetC, "list")>>
           [] OTHER -> <<Def("function", FALSE, RunB, "none"),
                         Def("function", FALSE, GetA, "empty")>>

(***************************************************************************)
(* Messages of the errors the code raises.                                 *)
(***************************************************************************)
NoError == [kind |-> "none", text |-> <<>>]
NotSetError == [kind |-> "PowerShell Script Path preference is not set.", text |-> <<>>]
NotFoundError(path) == [kind |-> "File not found at: ", text |-> path]
ParseFailedError == [kind |-> "Failed to parse PowerShell script: ", text |-> <<>>]
ReadFileError == [kind |-> "ENOENT", text |-> <<>>]

(***************************************************************************)
(* Cache keys.                                                             *)
(***************************************************************************)
FUNCTIONS_CACHE_KEY == [prefix |-> "powershell-functions", path |-> <<>>, mtime |-> 0]
\* what cache.remove receives from handleReload: the promise getFileKey
\* returned, never a key of the form functions-<path>-<mtime>
PromiseKey == [prefix |-> "[object Promise]", path |-> <<>>, mtime |-> 0]

VARIABLES
    variant,        \* "mtime" or "manual": which prototype runs
    scriptPath,     \* preferences.scriptPath
    mtimeMs,        \* [Files -> Nat]: each script's modification time
    onDisk,         \* [Files -> BOOLEAN]: whether the script exists
    cache,          \* the Cache: key -> JSON text
    phase,          \* "closed", "open", or "crashed" (render threw)
    resolvedPath,   \* <<>> is undefined
    pathError,
    cacheBuster,
    functions,      \* usePromise's data / useState functions
    isLoading,
    error,
    calls,          \* fetchFunctions / handleReload calls in flight
    execs,          \* executePowerShellFunction calls and their toasts
    lastLoad        \* history: the load of the name list that completed last

vars == <<variant, scriptPath, mtimeMs, onDisk, cache, phase, resolvedPath,
          pathError, cacheBuster, functions, isLoading, error, calls, execs,
          lastLoad>>

envVars == <<variant, scriptPath, mtimeMs, onDisk>>
viewVars == <<resolvedPath, pathError, cacheBuster, functions, isLoading, error>>
histVars == <<lastLoad>>

(***************************************************************************)
(* PathResolver (the effect of the mtime variant, the head of handleReload *)
(* and executePowerShellFunction of the manual variant).                   *)
(***************************************************************************)
\* initialPath.replace(/^~/, homedir())
expandedPath(initialPath) ==
    IF initialPath # <<>> /\ Head(initialPath) = Tilde
    THEN HomeDir \o Tail(initialPath)
    ELSE initialPath

IsFile(path) == path \in Files /\ onDisk[path]

existsSync(path) ==
    \/ IsFile(path)
    \/ path = LinkB /\ IsFile(ScriptB)

realpathSync(path) == IF path = LinkB THEN ScriptB ELSE path

\* the try block of the path effect: the resolved path, or the error thrown
Resolve(initialPath) ==
    IF initialPath = <<>> THEN [realPath |-> <<>>, err |-> NotSetError]
    ELSE IF ~existsSync(expandedPath(initialPath))
         THEN [realPath |-> <<>>, err |-> NotFoundError(expandedPath(initialPath))]
         ELSE [realPath |-> realpathSync(expandedPath(initialPath)), err |-> NoError]

(***************************************************************************)
(* FreshnessCache.                                                         *)
(***************************************************************************)
\* a key that leaves the modification time out
getFileKeyWithoutMtime(filePath) == [prefix |-> "functions", path |-> filePath, mtime |-> 0]

\* `functions-${filePath}-${stats.mtimeMs}`
getFileKey(filePath) == [prefix |-> "functions", path |-> filePath, mtime |-> mtimeMs[filePath]]

\* cache.get(key); <<>> is undefined (an absent entry)
cacheGet(key) == IF key \in DOMAIN cache THEN cache[key] ELSE <<>>

cacheSet(key, text) ==
    [k \in DOMAIN cache \cup {key} |-> IF k = key THEN text ELSE cache[k]]

cacheRemove(key) == [k \in DOMAIN cache \ {key} |-> cache[k]]

\* a test that also takes the text of the empty array for a miss
TruthyAndNonEmptyArray(cached) == cached # <<>> /\ cached # <<LBracket, RBracket>>

\* if (cached): the empty string and undefined are falsy
Truthy(cached) == cached # <<>>

(***************************************************************************)
(* Records of the calls in flight and of the completed loads.              *)
(***************************************************************************)
\* A call in flight.  calls holds them in the order they were started.
\* pc: "exec" (fetchFunctions awaits its child process);
\*     "read" (handleReload awaits readFile); "toast" (it awaits showToast)
\* latest: usePromise will take the call's result (callId = lastCallId)
\* mtime:  the modification time the call found when it started
Call(pc, path, key, force) ==
    [pc |-> pc, path |-> path, key |-> key, force |-> force, latest |-> TRUE,
     mtime |-> IF path \in Files THEN mtimeMs[path] ELSE 0]

\* seq tells one completed load from the next (it alternates)
NoLoad ==
    [seq |-> 0, done |-> FALSE, path |-> <<>>, mtime |-> 0, result |-> Undefined,
     force |-> FALSE, spawned |-> FALSE]

Load(path, mtime, result, force, spawned) ==
    [seq |-> 1 - lastLoad.seq, done |-> TRUE, path |-> path, mtime |-> mtime,
     result |-> result, force |-> force, spawned |-> spawned]

Slots == 1..Len(calls)
HasFreeSlot == Len(calls) < MaxCalls
Without(cs, i) == [j \in 1..(Len(cs) - 1) |-> IF j < i THEN cs[j] ELSE cs[j + 1]]

\* the calls in flight once usePromise has started a newer call
Superseded(cs) == [i \in 1..Len(cs) |-> [cs[i] EXCEPT !.latest = FALSE]]

\* functions && functions.length > 0 ? functions.map(...) : ...: a string
\* has a length and no map, so rendering it throws
Render(pErr, fns) == IF pErr = NoError /\ fns.kind = "string" THEN "crashed" ELSE "open"

(***************************************************************************)
(* fetchFunctions, up to its first await of the child process.             *)
(***************************************************************************)
fetchFunctions(filePath, forceReload) ==
    IF ~onDisk[filePath] THEN [kind |-> "throw", key |-> PromiseKey, value |-> Undefined]
    ELSE LET cacheKey == getFileKey(filePath)
             cached == cacheGet(cacheKey)
         IN IF ~forceReload /\ Truthy(cached)
            THEN [kind |-> "hit", key |-> cacheKey, value |-> JSONParse(cached)]
            ELSE [kind |-> "spawn", key |-> cacheKey, value |-> Undefined]

\* usePromise running its function for new arguments [path, bust]
usePromise(path, bust) ==
    IF path = <<>>
    THEN /\ functions' = EmptyArray
         /\ isLoading' = FALSE
         /\ error' = NoError
         /\ calls' = Superseded(calls)
         /\ UNCHANGED histVars
    ELSE LET r == fetchFunctions(path, bust > 0) IN
         CASE r.kind = "throw" ->
                /\ functions' = Undefined
                /\ isLoading' = FALSE
                /\ error' = ParseFailedError
                /\ calls' = Superseded(calls)
                /\ UNCHANGED histVars
           [] r.kind = "hit" ->
                /\ functions' = r.value
                /\ isLoading' = FALSE
                /\ error' = NoError
                /\ calls' = Superseded(calls)
                /\ lastLoad' = Load(path, mtimeMs[path], r.value, FALSE, FALSE)
           [] r.kind = "spawn" ->
                /\ HasFreeSlot
                /\ calls' = Append(Superseded(calls), Call("exec", path, r.key, bust > 0))
                /\ isLoading' = TRUE
                /\ UNCHANGED <<functions, error, histVars>>

(***************************************************************************)
(* The mtime variant: src/src/execute-powershell-function.tsx              *)
(***************************************************************************)
\* the command is opened: first render, the path effect, the first load
Command ==
    /\ variant = "mtime"
    /\ phase = "closed"
    /\ LET r == Resolve(scriptPath) IN
         /\ resolvedPath' = r.realPath
         /\ pathError' = r.err
         /\ cacheBuster' = 0
         /\ usePromise(r.realPath, 0)
    /\ phase' = Render(pathError', functions')
    /\ UNCHANGED <<envVars, cache, execs>>

\* a new value of the preference
setScriptPath(p) ==
    /\ p # scriptPath
    /\ scriptPath' = p
    /\ IF variant = "mtime" /\ phase = "open"
       THEN LET r == Resolve(p) IN
              /\ resolvedPath' = r.realPath
              /\ pathError' = r.err
              /\ IF r.realPath # resolvedPath
                 THEN usePromise(r.realPath, cacheBuster)
                 ELSE UNCHANGED <<functions, isLoading, error, calls, histVars>>
              /\ phase' = Render(pathError', functions')
              /\ UNCHANGED cacheBuster
       ELSE UNCHANGED <<phase, viewVars, calls, histVars>>
    /\ UNCHANGED <<variant, mtimeMs, onDisk, cache, execs>>

\* "Reload Functions": cache.remove is handed the promise of getFileKey; the
\* Cache either finds no entry under it or rejects the argument
handleReload(threw) ==
    /\ variant = "mtime"
    /\ phase = "open"
    /\ pathError = NoError
    /\ cacheBuster < MaxBuster
    /\ IF threw
       THEN /\ resolvedPath # <<>>
            /\ UNCHANGED <<cache, viewVars, calls, histVars, phase>>
       ELSE /\ cache' = IF resolvedPath # <<>> THEN cacheRemove(PromiseKey) ELSE cache
            /\ cacheBuster' = cacheBuster + 1
            /\ usePromise(resolvedPath, cacheBuster + 1)
            /\ phase' = Render(pathError, functions')
            /\ UNCHANGED <<resolvedPath, pathError>>
    /\ UNCHANGED <<envVars, execs>>

\* "Reload" of the Invalid Path view
InvalidPathReload ==
    /\ variant = "mtime"
    /\ phase = "open"
    /\ pathError # NoError
    /\ pathError' = NoError
    /\ resolvedPath' = <<>>
    /\ UNCHANGED <<envVars, cache, phase, cacheBuster, functions, isLoading,
                   error, calls, execs, histVars>>

\* a fetchFunctions that stores the empty list when its child fails
fetchDoneCachingFailure(i, ok) ==
    /\ i \in Slots
    /\ calls[i].pc = "exec"
    /\ ok => onDisk[calls[i].path]
    /\ LET c == calls[i]
           stdout == ConvertToJson(FindAllNames(ScriptAt(c.path, mtimeMs[c.path])))
           fns == ParseStdout(stdout)
           rest == Without(calls, i)
       IN IF ok
          THEN /\ cache' = cacheSet(c.key, JSONStringify(fns))
               /\ calls' = rest
               /\ lastLoad' = Load(c.path, c.mtime, fns, c.force, TRUE)
               /\ IF c.latest /\ phase = "open"
                  THEN /\ functions' = fns
                       /\ isLoading' = FALSE
                       /\ error' = NoError
                       /\ phase' = Render(pathError, fns)
                  ELSE UNCHANGED <<functions, isLoading, error, phase>>
          ELSE /\ calls' = rest
               /\ IF c.latest /\ phase = "open"
                  THEN /\ functions' = Undefined
                       /\ isLoading' = FALSE
                       /\ error' = ParseFailedError
                  ELSE UNCHANGED <<functions, isLoading, error>>
               /\ cache' = cacheSet(c.key, JSONStringify(EmptyArray))
               /\ UNCHANGED <<histVars, phase>>
    /\ UNCHANGED <<envVars, resolvedPath, pathError, cacheBuster, execs>>

\* the child process of fetchFunctions ends; ok: it parsed the file and
\* exited with code 0
fetchDone(i, ok) ==
    /\ i \in Slots
    /\ calls[i].pc = "exec"
    /\ ok => onDisk[calls[i].path]
    /\ LET c == calls[i]
           stdout == ConvertToJson(FindAllNames(ScriptAt(c.path, mtimeMs[c.path])))
           fns == ParseStdout(stdout)
           rest == Without(calls, i)
       IN IF ok
          THEN /\ cache' = cacheSet(c.key, JSONStringify(fns))
               /\ calls' = rest
               /\ lastLoad' = Load(c.path, c.mtime, fns, c.force, TRUE)
               /\ IF c.latest /\ phase = "open"
                  THEN /\ functions' = fns
                       /\ isLoading' = FALSE
                       /\ error' = NoError
                       /\ phase' = Render(pathError, fns)
                  ELSE UNCHANGED <<functions, isLoading, error, phase>>
          ELSE /\ calls' = rest
               /\ IF c.latest /\ phase = "open"
                  THEN /\ functions' = Undefined
                       /\ isLoading' = FALSE
                       /\ error' = ParseFailedError
                  ELSE UNCHANGED <<functions, isLoading, error>>
               /\ UNCHANGED <<cache, histVars, phase>>
    /\ UNCHANGED <<envVars, resolvedPath, pathError, cacheBuster, execs>>

(***************************************************************************)
(* The manual variant: src/unnamed/part_001                                *)
(***************************************************************************)
\* the command is opened: the mount effect reads the fixed key
CommandManual ==
    /\ variant = "manual"
    /\ phase = "closed"
    /\ LET cachedFunctions == cacheGet(FUNCTIONS_CACHE_KEY)
           r == Resolve(scriptPath)
       IN IF Truthy(cachedFunctions)
          THEN /\ functions' = JSONParse(cachedFunctions)
               /\ lastLoad' = Load(r.realPath,
                                   IF r.realPath = <<>> THEN 0 ELSE mtimeMs[r.realPath],
                                   JSONParse(cachedFunctions), FALSE, FALSE)
          ELSE /\ functions' = EmptyArray
               /\ UNCHANGED lastLoad
    /\ isLoading' = FALSE
    /\ error' = NoError
    /\ phase' = "open"
    /\ UNCHANGED <<envVars, cache, resolvedPath, pathError, cacheBuster, calls, execs>>

\* "Reload Functions", up to the await of readFile (or, when the path does
\* not resolve, of the failure toast)
handleReloadManual ==
    /\ variant = "manual"
    /\ phase = "open"
    /\ HasFreeSlot
    /\ LET r == Resolve(scriptPath) IN
         /\ isLoading' = TRUE
         /\ error' = r.err
         /\ calls' = Append(calls, Call(IF r.err = NoError THEN "read" ELSE "toast",
                                        r.realPath, FUNCTIONS_CACHE_KEY, TRUE))
    /\ UNCHANGED <<envVars, cache, phase, resolvedPath, pathError, cacheBuster,
                   functions, execs, histVars>>

\* readFile settles; ok: it read the file
readFileDone(i, ok) ==
    /\ i \in Slots
    /\ calls[i].pc = "read"
    /\ ok => onDisk[calls[i].path]
    /\ LET c == calls[i]
           found == ArrayOf(foundFunctions(ScriptAt(c.path, mtimeMs[c.path])))
       IN IF ok
          THEN /\ functions' = found
               /\ cache' = cacheSet(FUNCTIONS_CACHE_KEY, JSONStringify(found))
               /\ calls' = [calls EXCEPT ![i].pc = "toast"]
               /\ lastLoad' = Load(c.path, mtimeMs[c.path], found, TRUE, TRUE)
               /\ UNCHANGED error
          ELSE /\ error' = ReadFileError
               /\ calls' = [calls EXCEPT ![i].pc = "toast"]
               /\ UNCHANGED <<functions, cache, histVars>>
    /\ UNCHANGED <<envVars, phase, resolvedPath, pathError, cacheBuster, isLoading, execs>>

\* showToast settles; the finally block runs
showToastDone(i) ==
    /\ i \in Slots
    /\ calls[i].pc = "toast"
    /\ isLoading' = FALSE
    /\ calls' = Without(calls, i)
    /\ UNCHANGED <<envVars, cache, phase, resolvedPath, pathError, cacheBuster,
                   functions, error, execs, histVars>>

(***************************************************************************)
(* The Invoker: executePowerShellFunction of both variants.                *)
(***************************************************************************)
Whitespace == {" ", "\n"}

RECURSIVE TrimStart(_)
TrimStart(s) == IF s # <<>> /\ Head(s) \in Whitespace THEN TrimStart(Tail(s)) ELSE s

RECURSIVE TrimEnd(_)
TrimEnd(s) ==
    IF s # <<>> /\ s[Len(s)] \in Whitespace THEN TrimEnd(SubSeq(s, 1, Len(s) - 1)) ELSE s

\* String.prototype.trim
Trim(s) == TrimEnd(TrimStart(s))

\* what a child process can do: not start at all, or exit with a code
\* after writing to its two streams
NoChild == [ran |-> FALSE, code |-> 1, stdout |-> <<>>, stderr |-> <<>>]
ChildRuns ==
    { [ran |-> r, code |-> c, stdout |-> so, stderr |-> se] :
        r \in {TRUE}, c \in {0, 1}, so \in {<<>>, <<"O", "K", "\n">>}, se \in {<<>>, <<"E">>} }
ChildResults == {NoChild} \cup ChildRuns

NoMessage == [kind |-> "undefined", text |-> <<>>]
OutputMessage(stdout) ==
    IF Trim(stdout) # <<>> THEN [kind |-> "Output: ", text |-> Trim(stdout)] ELSE NoMessage
\* new Error(stderr)
StderrMessage(stderr) == [kind |-> "", text |-> stderr]
\* the error execAsync rejects with: "Command failed: <command>\n<stderr>"
CommandFailedMessage(stderr) == [kind |-> "Command failed: ", text |-> stderr]
TypeErrorMessage == [kind |-> "TypeError", text |-> <<>>]

\* `. '${escapedPath}'; ${functionName}`
Command_(escapedPath, functionName) ==
    [literal |-> QuotedLiteral(escapedPath), fn |-> functionName]
NoCommand == [literal |-> <<>>, fn |-> <<>>]

\* an invocation and its toast
\* pc: "toast" (awaits showToast), "exec" (awaits the child), "done"
\* unset: the preference was the empty string when the action was chosen
Invocation(name, path) ==
    [pc |-> "toast", name |-> name, path |-> path, command |-> NoCommand,
     status |-> "Animated", message |-> NoMessage, child |-> NoChild,
     spawned |-> FALSE, unset |-> scriptPath = <<>>]

\* the list item's "Execute Function" action
StartInvocation(funcName) ==
    /\ phase = "open"
    /\ functions.kind = "array"
    /\ \E k \in 1..Len(functions.items) : functions.items[k] = funcName
    /\ IF variant = "mtime"
       THEN /\ pathError = NoError
            /\ execs' = Append(execs, Invocation(funcName, resolvedPath))
       ELSE /\ error = NoError
            /\ execs' = Append(execs, Invocation(funcName, scriptPath))
    /\ UNCHANGED <<envVars, cache, phase, viewVars, calls, histVars>>

ExecuteFunction(funcName) == Len(execs) < MaxExec /\ StartInvocation(funcName)

\* the action chosen again while earlier invocations are still running
ExecuteOverlapping(funcName) == Len(execs) < MaxOverlap /\ StartInvocation(funcName)

Failed(e, message) ==
    [e EXCEPT !.pc = "done", !.status = "Failure", !.message = message]

\* an invoker that composes the command without looking at the path first
executePowerShellFunctionUnchecked(e) ==
    [e EXCEPT !.pc = "exec", !.spawned = TRUE,
              !.command = Command_(escapePowerShellPath(e.path), e.name)]

\* the try block of executePowerShellFunction up to the await of execAsync
executePowerShellFunction(e) ==
    IF variant = "manual"
    THEN IF ~existsSync(expandedPath(e.path))
         THEN Failed(e, NotFoundError(expandedPath(e.path)))
         ELSE [e EXCEPT !.pc = "exec", !.spawned = TRUE,
                        !.command = Command_(escapePowerShellPath(
                                        realpathSync(expandedPath(e.path))), e.name)]
    ELSE IF e.path = <<>>
         THEN Failed(e, TypeErrorMessage)
         ELSE [e EXCEPT !.pc = "exec", !.spawned = TRUE,
                        !.command = Command_(escapePowerShellPath(e.path), e.name)]

\* an invoker that shows the list as loading while the function runs
executeSpawnLoading(i) ==
    /\ i \in 1..Len(execs)
    /\ execs[i].pc = "toast"
    /\ execs' = [execs EXCEPT ![i] = executePowerShellFunction(execs[i])]
    /\ isLoading' = TRUE
    /\ UNCHANGED <<envVars, cache, phase, resolvedPath, pathError, cacheBuster,
                   functions, error, calls, histVars>>

\* showToast settles and the try block runs
executeSpawn(i) ==
    /\ i \in 1..Len(execs)
    /\ execs[i].pc = "toast"
    /\ execs' = [execs EXCEPT ![i] = executePowerShellFunction(execs[i])]
    /\ UNCHANGED <<envVars, cache, phase, viewVars, calls, histVars>>

\* an invoker that looks at the exit code alone
executeSettledByExitCode(e, child) ==
    IF ~child.ran \/ child.code # 0
    THEN [Failed(e, CommandFailedMessage(child.stderr)) EXCEPT !.child = child]
    ELSE [e EXCEPT !.pc = "done", !.status = "Success", !.child = child,
                   !.message = OutputMessage(child.stdout)]

\* an invoker whose rejected execAsync is not caught: the toast is never
\* updated
executeSettledUncaught(e, child) ==
    IF ~child.ran \/ child.code # 0
    THEN [e EXCEPT !.pc = "done", !.child = child]
    ELSE IF child.stderr # <<>>
         THEN [Failed(e, StderrMessage(child.stderr)) EXCEPT !.child = child]
         ELSE [e EXCEPT !.pc = "done", !.status = "Success", !.child = child,
                        !.message = OutputMessage(child.stdout)]

\* the rest of the try block and the catch block, given what the child did
executeSettled(e, child) ==
    IF ~child.ran \/ child.code # 0
    THEN [Failed(e, CommandFailedMessage(child.stderr)) EXCEPT !.child = child]
    ELSE IF child.stderr # <<>>
         THEN [Failed(e, StderrMessage(child.stderr)) EXCEPT !.child = child]
         ELSE [e EXCEPT !.pc = "done", !.status = "Success", !.child = child,
                        !.message = OutputMessage(child.stdout)]

\* the script the child dot-sources
ScriptOf(e) == IF variant = "manual" THEN realpathSync(expandedPath(e.path)) ELSE e.path

\* the child process of an invocation ends (or could not be started);
\* dot-sourcing a script that is gone writes to standard error
childExit(i, child) ==
    /\ i \in 1..Len(execs)
    /\ execs[i].pc = "exec"
    /\ (child.ran /\ ~IsFile(ScriptOf(execs[i]))) => (child.stderr # <<>> /\ child.code = 1)
    /\ execs' = [execs EXCEPT ![i] = executeSettled(execs[i], child)]
    /\ UNCHANGED <<envVars, cache, phase, viewVars, calls, histVars>>

\* the toast of a finished invocation goes away
toastHide(i) ==
    /\ i \in 1..Len(execs)
    /\ execs[i].pc = "done"
    /\ execs' = [j \in 1..(Len(execs) - 1) |-> IF j < i THEN execs[j] ELSE execs[j + 1]]
    /\ UNCHANGED <<envVars, cache, phase, viewVars, calls, histVars>>

(***************************************************************************)
(* The environment: the command is closed, a script is edited or deleted.  *)
(***************************************************************************)
Close ==
    /\ phase # "closed"
    /\ phase' = "closed"
    /\ resolvedPath' = <<>>
    /\ pathError' = NoError
    /\ cacheBuster' = 0
    /\ functions' = Undefined
    /\ isLoading' = TRUE
    /\ error' = NoError
    /\ calls' = <<>>
    /\ execs' = <<>>
    /\ UNCHANGED <<envVars, cache, histVars>>

EditFile(f) ==
    /\ onDisk[f]
    /\ f = ScriptA
    /\ mtimeMs[f] < MaxMtime
    /\ mtimeMs' = [mtimeMs EXCEPT ![f] = @ + 1]
    /\ UNCHANGED <<variant, scriptPath, onDisk, cache, phase, viewVars, calls, execs, histVars>>

DeleteFile(f) ==
    /\ onDisk[f]
    /\ f = ScriptA
    /\ onDisk' = [onDisk EXCEPT ![f] = FALSE]
    /\ UNCHANGED <<variant, scriptPath, mtimeMs, cache, phase, viewVars, calls, execs, histVars>>

\* the script is written again: a new modification time
CreateFile(f) ==
    /\ ~onDisk[f]
    /\ mtimeMs[f] < MaxMtime
    /\ onDisk' = [onDisk EXCEPT ![f] = TRUE]
    /\ mtimeMs' = [mtimeMs EXCEPT ![f] = @ + 1]
    /\ UNCHANGED <<variant, scriptPath, cache, phase, viewVars, calls, execs, histVars>>

Init ==
    /\ variant \in {"mtime", "manual"}
    /\ scriptPath \in Prefs
    /\ mtimeMs = [f \in Files |-> 0]
    /\ onDisk = [f \in Files |-> TRUE]
    /\ cache = <<>>
    /\ phase = "closed"
    /\ resolvedPath = <<>>
    /\ pathError = NoError
    /\ cacheBuster = 0
    /\ functions = Undefined
    /\ isLoading = TRUE
    /\ error = NoError
    /\ calls = <<>>
    /\ execs = <<>>
    /\ lastLoad = NoLoad

Next ==
    \/ Command
    \/ CommandManual
    \/ \E p \in Prefs : setScriptPath(p)
    \/ \E threw \in BOOLEAN : handleReload(threw)
    \/ InvalidPathReload
    \/ \E i \in 1..MaxCalls, ok \in BOOLEAN : fetchDone(i, ok)
    \/ handleReloadManual
    \/ \E i \in 1..MaxCalls, ok \in BOOLEAN : readFileDone(i, ok)
    \/ \E i \in 1..MaxCalls : showToastDone(i)
    \/ Close
    \/ \E f \in Files : EditFile(f)
    \/ \E f \in Files : DeleteFile(f)
    \/ \E f \in Files : CreateFile(f)

\* the loads of the name list, with the scripts edited under them
Spec == Init /\ [][Next]_vars

NextInvoke ==
    \/ Command
    \/ CommandManual
    \/ \E p \in Prefs : setScriptPath(p)
    \/ \E threw \in BOOLEAN : handleReload(threw)
    \/ InvalidPathReload
    \/ \E i \in 1..MaxCalls, ok \in BOOLEAN : fetchDone(i, ok)
    \/ handleReloadManual
    \/ \E i \in 1..MaxCalls, ok \in BOOLEAN : readFileDone(i, ok)
    \/ \E i \in 1..MaxCalls : showToastDone(i)
    \/ Close
    \/ \E f \in Files : DeleteFile(f)
    \/ \E n \in {GetA, RunB, SetC, GetDotD} : ExecuteFunction(n)
    \/ \E i \in 1..MaxExec : executeSpawn(i)
    \/ \E i \in 1..MaxExec, child \in ChildResults : childExit(i, child)
    \/ \E i \in 1..MaxExec : toastHide(i)

\* the loads and the invocations, the scripts left as they are or deleted
SpecInvoke == Init /\ [][NextInvoke]_vars

(***************************************************************************)
(* escapePowerShellPath on arbitrary paths: the command is open on a path  *)
(* drawn from PathInputs and its functions are invoked.                    *)
(***************************************************************************)
PathAlphabet == {Quote, Backslash, "a", ";"}
ExamplePath ==
    <<"C", ":", "\\", "U", "s", "e", "r", "s", "\\", "O", "'", "B", "r",
      "i", "e", "n", "\\", "s", "c", "r", "i", "p", "t", "s", "\\", "f",
      ".", "p", "s", "1">>
ExampleEscaped ==
    <<"C", ":", "\\", "\\", "U", "s", "e", "r", "s", "\\", "\\", "O",
      "'", "'", "B", "r", "i", "e", "n", "\\", "\\", "s", "c", "r", "i",
      "p", "t", "s", "\\", "\\", "f", ".", "p", "s", "1">>

RECURSIVE Strings(_)
\* the strings of exactly n characters over PathAlphabet
Strings(n) ==
    IF n = 0 THEN {<<>>}
    ELSE {<<c>> \o t : c \in PathAlphabet, t \in Strings(n - 1)}

PathInputs == UNION {Strings(n) : n \in 1..MaxPathLen} \cup {ExamplePath}

InitEscape ==
    /\ variant = "mtime"
    /\ scriptPath = PrefHome
    /\ mtimeMs = [f \in Files |-> 0]
    /\ onDisk = [f \in Files |-> TRUE]
    /\ cache = <<>>
    /\ phase = "open"
    /\ resolvedPath \in PathInputs
    /\ pathError = NoError
    /\ cacheBuster = 0
    /\ functions = ArrayOf(<<GetA, RunB>>)
    /\ isLoading = FALSE
    /\ error = NoError
    /\ calls = <<>>
    /\ execs = <<>>
    /\ lastLoad = NoLoad

NextEscape ==
    \/ \E n \in {GetA, RunB} : ExecuteFunction(n)
    \/ \E i \in 1..MaxExec : executeSpawn(i)
    \/ \E i \in 1..MaxExec, child \in ChildResults : childExit(i, child)
    \/ \E i \in 1..MaxExec : toastHide(i)

SpecEscape == InitEscape /\ [][NextEscape]_vars

(***************************************************************************)
(* Invocations that overlap each other and a reload, in one session on     *)
(* scripts that stay as they are.                                          *)
(***************************************************************************)
NextOverlap ==
    \/ Command
    \/ CommandManual
    \/ \E threw \in BOOLEAN : handleReload(threw)
    \/ handleReloadManual
    \/ \E i \in 1..MaxCalls, ok \in BOOLEAN : fetchDone(i, ok)
    \/ \E i \in 1..MaxCalls, ok \in BOOLEAN : readFileDone(i, ok)
    \/ \E i \in 1..MaxCalls : showToastDone(i)
    \/ \E n \in {GetA, RunB, SetC, GetDotD} : ExecuteOverlapping(n)
    \/ \E i \in 1..MaxOverlap : executeSpawn(i)
    \/ \E i \in 1..MaxOverlap, child \in ChildResults : childExit(i, child)
    \/ \E i \in 1..MaxOverlap : toastHide(i)

SpecOverlap == Init /\ [][NextOverlap]_vars

(***************************************************************************)
(* Properties.                                                             *)
(***************************************************************************)
\* a step in which the mtime variant starts a non-forced load of file p:
\* the command is opened, or the preference changes to another script,
\* while cacheBuster is 0
StartsLoad(p) ==
    /\ variant = "mtime"
    /\ resolvedPath' = p
    /\ cacheBuster' = 0
    /\ \/ phase = "closed" /\ phase' # "closed"
       \/ phase = "open" /\ scriptPath' # scriptPath /\ resolvedPath # p

\* the step started a child process of fetchFunctions
SpawnsFetch == Len(calls') = Len(calls) + 1 /\ calls'[Len(calls')].pc = "exec"

\* the lists an extraction of file p can give once its modification time is
\* m or later
FreshResults(p, m) ==
    { ParseStdout(ConvertToJson(FindAllNames(ScriptAt(p, v)))) : v \in m..MaxMtime }

FreshResultsManual(p, m) ==
    { ArrayOf(foundFunctions(ScriptAt(p, v))) : v \in m..MaxMtime }

\* C1: a non-forced load of a script whose key (path and modification time)
\* is the key of the load that completed last returns that load's list, is
\* served from the cache and starts no child process, whatever the list is.
C1_Idempotent ==
    [][\A p \in Files :
         (StartsLoad(p) /\ lastLoad.done /\ lastLoad.path = p /\ lastLoad.mtime = mtimeMs[p])
         => /\ ~SpawnsFetch
            /\ Len(calls') = Len(calls)
            /\ lastLoad'.seq # lastLoad.seq
            /\ ~lastLoad'.spawned
            /\ lastLoad'.result = lastLoad.result
            /\ functions' = lastLoad.result]_vars

\* C1 witness: the empty list was served from the cache
C1_Witness ==
    /\ variant = "mtime"
    /\ phase = "open"
    /\ lastLoad.done /\ ~lastLoad.force /\ ~lastLoad.spawned
    /\ lastLoad.result = EmptyArray
    /\ functions = EmptyArray
    /\ DOMAIN cache # {}

\* C2 (as amended): in the mtime variant the list a load returns was
\* extracted from the content the script has at or after the modification
\* time the load found, and a non-forced load that finds no entry under the
\* key of the current modification time runs a fresh extraction.
C2_FreshList ==
    (variant = "mtime" /\ lastLoad.done) =>
        lastLoad.result \in FreshResults(lastLoad.path, lastLoad.mtime)

C2_FreshAfterEdit ==
    /\ []C2_FreshList
    /\ [][\A p \in Files :
            (StartsLoad(p) /\ ~Truthy(cacheGet(getFileKey(p))))
            => (SpawnsFetch /\ calls'[Len(calls')].key = getFileKey(p))]_vars

\* C2 witness: after an edit, a non-forced load ran an extraction and the
\* list shown is the one of the edited script
C2_Witness ==
    /\ variant = "mtime"
    /\ phase = "open"
    /\ lastLoad.done /\ ~lastLoad.force /\ lastLoad.spawned
    /\ lastLoad.path = ScriptA /\ lastLoad.mtime = 2
    /\ getFileKey(ScriptA) \in DOMAIN cache
    /\ [prefix |-> "functions", path |-> ScriptA, mtime |-> 0] \in DOMAIN cache
    /\ functions = lastLoad.result

\* C2 (as stated): in both variants, when a non-forced load follows a
\* non-forced load of the same script and the modification time changed in
\* between, the list it presents is a fresh extraction's.
C2_AsStated ==
    [][(/\ lastLoad'.seq # lastLoad.seq
        /\ lastLoad.done /\ ~lastLoad.force /\ ~lastLoad'.force
        /\ lastLoad'.path = lastLoad.path
        /\ lastLoad.mtime < lastLoad'.mtime)
       => lastLoad'.result \in
            (IF variant = "mtime"
             THEN FreshResults(lastLoad'.path, lastLoad'.mtime)
             ELSE FreshResultsManual(lastLoad'.path, lastLoad'.mtime))]_vars

\* C3 (as stated): while a forced extraction has not stored its result, the
\* cache holds no entry under its key.
C3_KeyRemoved ==
    \A i \in 1..Len(calls) :
        (calls[i].force /\ calls[i].pc \in {"exec", "read"})
        => ~Truthy(cacheGet(calls[i].key))

\* C4 (as stated): at most one extraction is in flight for each cache key.
C4_OneInFlight ==
    \A i, j \in 1..Len(calls) :
        (i # j /\ calls[i].pc \in {"exec", "read"} /\ calls[j].pc \in {"exec", "read"})
        => calls[i].key # calls[j].key

\* C3 (as stated, the removal itself): a step that starts a forced
\* extraction leaves no entry under the key of that extraction.
C3_RemovedAtReload ==
    [][(Len(calls') = Len(calls) + 1 /\ calls'[Len(calls')].force)
       => ~(calls'[Len(calls')].key \in DOMAIN cache')]_vars

\* C5 (as stated): no child process is started for a function name that is
\* not an identifier, and such an invocation ends Failed.
C5_NameValidated ==
    \A i \in 1..Len(execs) :
        /\ execs[i].spawned => IsIdentifier(execs[i].name)
        /\ (execs[i].pc = "done" /\ ~IsIdentifier(execs[i].name)) => execs[i].status = "Failure"

EscapeChar(c) ==
    IF c = Quote THEN <<Quote, Quote>>
    ELSE IF c = Backslash THEN <<Backslash, Backslash>>
    ELSE <<c>>

RECURSIVE EscapedCharByChar(_)
EscapedCharByChar(p) ==
    IF p = <<>> THEN <<>> ELSE EscapeChar(Head(p)) \o EscapedCharByChar(Tail(p))

RECURSIVE BackslashesDoubled(_)
BackslashesDoubled(p) ==
    IF p = <<>> THEN <<>>
    ELSE (IF Head(p) = Backslash THEN <<Backslash, Backslash>> ELSE <<Head(p)>>)
         \o BackslashesDoubled(Tail(p))

\* the escaped path is the path with every quote and every backslash
\* doubled and nothing else changed, and PowerShell reads the literal built
\* from it as one single-quoted string and nothing after it
C6_OneLiteral(e) ==
    /\ e.command.literal = QuotedLiteral(EscapedCharByChar(e.path))
    /\ ParseSingleQuoted(e.command.literal).closed
    /\ ParseSingleQuoted(e.command.literal).rest = <<>>
    /\ e.path = ExamplePath => e.command.literal = QuotedLiteral(ExampleEscaped)

\* C6 (as amended): for every path, escapePowerShellPath doubles every
\* single quote and every backslash and changes nothing else; the literal
\* is read as one single-quoted string, whose value is the path with every
\* backslash doubled (the original path only if it holds no backslash).
C6_Escaping ==
    \A i \in 1..Len(execs) :
        execs[i].spawned =>
            /\ C6_OneLiteral(execs[i])
            /\ ParseSingleQuoted(execs[i].command.literal).value
                   = BackslashesDoubled(execs[i].path)

\* C6 witness: the command for the example path has been composed
C6_Witness ==
    \E i \in 1..Len(execs) :
        /\ execs[i].spawned
        /\ execs[i].path = ExamplePath
        /\ execs[i].command.literal = QuotedLiteral(ExampleEscaped)

\* C6 (as stated): ... and the value of the literal is the original path.
C6_AsStated ==
    \A i \in 1..Len(execs) :
        execs[i].spawned =>
            /\ C6_OneLiteral(execs[i])
            /\ ParseSingleQuoted(execs[i].command.literal).value = execs[i].path

\* C7: an invocation ends Succeeded, its message the captured output,
\* exactly when its child ran, exited with code 0 and wrote nothing to
\* standard error; and a child that wrote to standard error makes it end
\* Failed with that text as message, whatever the exit code.
C7_Classification ==
    \A i \in 1..Len(execs) :
        execs[i].pc = "done" =>
            LET e == execs[i] IN
            /\ e.status = "Success"
                 <=> (e.spawned /\ e.child.ran /\ e.child.code = 0 /\ e.child.stderr = <<>>)
            /\ e.status = "Success" =>
                 e.message = IF Trim(e.child.stdout) = <<>> THEN NoMessage
                             ELSE [kind |-> "Output: ", text |-> Trim(e.child.stdout)]
            /\ (e.child.ran /\ e.child.stderr # <<>>) =>
                 (e.status = "Failure" /\ e.message.text = e.child.stderr)

\* C7 witness: a child exited with code 0 after writing to standard error,
\* and the invocation ended Failed
C7_Witness ==
    \E i \in 1..Len(execs) :
        /\ execs[i].pc = "done"
        /\ execs[i].child.ran /\ execs[i].child.code = 0 /\ execs[i].child.stderr # <<>>
        /\ execs[i].status = "Failure"

C8_OneOutcome ==
    \A i \in 1..Len(execs) :
        /\ execs[i].pc = "done" => execs[i].status \in {"Success", "Failure"}
        /\ execs[i].pc # "done" => execs[i].status = "Animated"

\* C8: every invocation that has finished, its child spawned or not, ended
\* in or failing, has exactly one outcome, Success or Failure; and no step of
\* an invocation changes the state of the session (its phase, its errors,
\* its path, its list).
C8_NeverRaises ==
    /\ []C8_OneOutcome
    /\ [][(execs' # execs /\ phase' # "closed")
          => UNCHANGED <<phase, pathError, error, resolvedPath, functions, isLoading>>]_vars

\* C8 witness: the child could not be started, the invocation ended Failed
\* and the session is open without an error
C8_Witness ==
    \E i \in 1..Len(execs) :
        /\ execs[i].pc = "done" /\ execs[i].spawned /\ ~execs[i].child.ran
        /\ execs[i].status = "Failure"
        /\ phase = "open" /\ error = NoError /\ pathError = NoError

C9_NoChildWhenUnset ==
    /\ \A i \in 1..Len(execs) : execs[i].unset => ~execs[i].spawned
    /\ (variant = "mtime" /\ phase = "open" /\ scriptPath = <<>>)
         => (resolvedPath = <<>> /\ pathError \in {NotSetError, NoError})

\* C9: when the path effect runs with the empty preference the session
\* gets the "preference is not set" path error and no resolved path; while
\* the preference is empty there is no resolved path and no other path
\* error; no step that leaves the preference empty starts an extraction
\* child; and no invocation chosen while the preference is empty starts a
\* child.
C9_EmptyPreference ==
    /\ []C9_NoChildWhenUnset
    /\ [][/\ scriptPath' = <<>> => ~SpawnsFetch
          /\ (/\ variant = "mtime"
              /\ scriptPath' = <<>>
              /\ \/ phase = "closed" /\ phase' # "closed"
                 \/ phase = "open" /\ scriptPath' # scriptPath)
             => (pathError' = NotSetError /\ resolvedPath' = <<>> /\ phase' = "open")]_vars

\* C9 witness: with the preference empty an invocation was chosen and has
\* ended Failed without a child
C9_Witness ==
    /\ scriptPath = <<>>
    /\ \E i \in 1..Len(execs) :
         execs[i].unset /\ execs[i].pc = "done" /\ execs[i].status = "Failure"

NoDuplicates(items) ==
    \A i, j \in 1..Len(items) : i # j => items[i] # items[j]

\* C10 (as stated): neither the list presented nor any cached list holds a
\* name twice.
C10_NoDuplicates ==
    /\ functions.kind = "array" => NoDuplicates(functions.items)
    /\ \A k \in DOMAIN cache : NoDuplicates(JSONParse(cache[k]).items)

\* the names of the definitions of a script that take no argument: no
\* parenthesised parameter list (or an empty one) and no param block
ZeroArgNames(script) ==
    {script[i].name : i \in {j \in 1..Len(script) : script[j].params \in {"none", "empty"}}}

\* C11 (as stated, up to the order and the number of occurrences): the list
\* of every completed extraction is an array that holds the names of the
\* zero-argument definitions of the script and no other name.
C11_ExactlyZeroArg ==
    (lastLoad.done /\ lastLoad.spawned) =>
        \E v \in lastLoad.mtime..MaxMtime :
            /\ lastLoad.result.kind = "array"
            /\ {lastLoad.result.items[i] : i \in 1..Len(lastLoad.result.items)}
                 = ZeroArgNames(ScriptAt(lastLoad.path, v))

\* C12 (as stated): when the extraction child of fetchFunctions fails while
\* the script can be read, the textual strategy gives the result: the load
\* ends with a list and without an error.
C12_FallbackAttempted ==
    [][(variant = "mtime" /\ resolvedPath' # <<>> /\ IsFile(resolvedPath') /\ error' # error)
       => (error' = NoError /\ functions'.kind = "array")]_vars

\* a step of the mtime variant in which the path effect runs: the command
\* is opened, or the preference changes while it is open
Configures ==
    /\ variant = "mtime"
    /\ \/ phase = "closed" /\ phase' # "closed"
       \/ phase = "open" /\ scriptPath' # scriptPath

\* C13 (as stated, for the variant that resolves the path when it is
\* configured): a failed resolution leaves the failure's message as path
\* error and no resolved path; a successful one leaves the canonical path,
\* no path error, and starts the initial load: the list cached under the
\* current key when there is one, and an extraction otherwise.
C13_Configure ==
    [][Configures =>
         LET r == Resolve(scriptPath') IN
         IF r.err # NoError
         THEN pathError' = r.err /\ resolvedPath' = <<>>
         ELSE /\ resolvedPath' = r.realPath /\ pathError' = NoError
              /\ (resolvedPath # r.realPath \/ phase = "closed") =>
                   IF Truthy(cacheGet(getFileKey(r.realPath)))
                   THEN /\ ~SpawnsFetch
                        /\ functions' = JSONParse(cacheGet(getFileKey(r.realPath)))
                   ELSE SpawnsFetch]_vars

\* a step of an invocation: it is started, its command is composed, its
\* child ends, or its toast goes away
InvocationStep == execs' # execs /\ phase' # "closed"

\* C14: no step of an invocation changes the name list, the resolved path,
\* the path error, the load error, the loading flag, the reload counter, the
\* loads in flight or any cache entry, also while a reload or another
\* invocation is running.
C14_Frame ==
    [][InvocationStep =>
         UNCHANGED <<functions, resolvedPath, pathError, error, isLoading,
                     cacheBuster, calls, cache, lastLoad, phase>>]_vars

\* C14 witness: an invocation has finished and another one is running while
\* a reload is in flight, the list and the cache being in place
C14_Witness ==
    /\ \E i, j \in 1..Len(execs) : execs[i].pc = "done" /\ execs[j].pc = "exec"
    /\ \E k \in 1..Len(calls) : calls[k].force /\ calls[k].pc \in {"exec", "read"}
    /\ functions.kind = "array" /\ functions.items # <<>>
    /\ DOMAIN cache # {}

\* C15 (as stated): a load started by opening the command or by a change
\* of the preference, reloads earlier in the session or not, takes the list
\* cached under the current key when there is one and starts no extraction.
C15_CacheFirst ==
    [][(/\ Configures
        /\ resolvedPath' # <<>>
        /\ (phase = "closed" \/ resolvedPath' # resolvedPath)
        /\ Truthy(cacheGet(getFileKey(resolvedPath'))))
       => /\ ~SpawnsFetch
          /\ functions' = JSONParse(cacheGet(getFileKey(resolvedPath')))
          /\ ~isLoading']_vars

\* the payloads an extraction of the script of key k can have stored
StoredBy(k) ==
    IF k = FUNCTIONS_CACHE_KEY
    THEN {JSONStringify(r) : r \in UNION {FreshResultsManual(f, 0) : f \in Files}}
    ELSE {JSONStringify(r) : r \in FreshResults(k.path, k.mtime)}

C16_PayloadsExtracted == \A k \in DOMAIN cache : cache[k] \in StoredBy(k)

C17_LoadingWhileInFlight ==
    (variant = "manual" /\ phase = "open" /\ calls # <<>>) => isLoading

\* a step in which a reload completes successfully although a reload that
\* was started after it has already completed successfully for the same
\* key and has given the session its list
EarlierCompletesAfterLater ==
    /\ lastLoad'.seq # lastLoad.seq /\ lastLoad'.spawned /\ lastLoad'.force
    /\ lastLoad.done /\ lastLoad.spawned /\ lastLoad.force
    /\ lastLoad.path = lastLoad'.path
    /\ error = NoError
    /\ functions = lastLoad.result
    /\ IF variant = "manual"
       THEN \E i, j \in 1..Len(calls) :
              /\ i < j
              /\ Len(calls') = Len(calls)
              /\ calls[i].pc = "read" /\ calls'[i].pc = "toast"
              /\ calls[j].pc = "toast"
       ELSE /\ Len(calls') = Len(calls) - 1
            /\ \A i \in 1..Len(calls) : ~calls[i].latest /\ calls[i].force
            /\ \E i \in 1..Len(calls) :
                 /\ calls' = Without(calls, i)
                 /\ calls[i].path = lastLoad.path
                 /\ calls[i].mtime = lastLoad.mtime
            /\ resolvedPath = lastLoad.path
            /\ ~isLoading

\* C18 (as stated): when the reload started earlier completes after the
\* one started later, the list and the cache keep what the later-started
\* reload left.
C18_LastStartedWins ==
    [][EarlierCompletesAfterLater => (functions' = functions /\ cache' = cache)]_vars

\* C19 (as stated): in the open session of the mtime variant exactly one of
\* resolvedPath and pathError is set.
C19_ExactlyOne ==
    (variant = "mtime" /\ phase = "open") =>
        ((resolvedPath # <<>>) # (pathError # NoError))

\* C9 (as stated): while the preference is empty the open session of the
\* mtime variant carries the "preference is not set" path error.
C9_AsStated ==
    (variant = "mtime" /\ phase = "open" /\ scriptPath = <<>>) => pathError = NotSetError

\* the names an extraction of file f can list
ExtractableNames(f) ==
    UNION { LET names == IF variant = "mtime" THEN FindAllNames(ScriptAt(f, v))
                         ELSE foundFunctions(ScriptAt(f, v))
            IN {names[i] : i \in 1..Len(names)} : v \in 0..MaxMtime }

\* C20 (as stated): the function of every invocation that has started a
\* child is one that an extraction of the script the child dot-sources
\* lists.
C20_OwnScript ==
    \A i \in 1..Len(execs) :
        execs[i].spawned => execs[i].name \in ExtractableNames(ScriptOf(execs[i]))

=============================================================================
